---- MODULE Spec2Model ----
(***************************************************************************)
(* Hitori solver (src/solver.py): the backtracking search of               *)
(* HitoriSolver.solve as a state machine over an explicit call stack,      *)
(* with its helper functions as operators.                                 *)
(* Rows and columns are numbered from 1 here (Python numbers them from 0). *)
(***************************************************************************)
EXTENDS Integers, Sequences, FiniteSets, TLC

\* ---------------------------------------------------------------- bounds
MaxCells == 4      \* grids have H*W <= MaxCells cells
MaxVal   == 2      \* grid values are drawn from 1..MaxVal
MaxM     == 2      \* max_components is drawn from 0..MaxM
MaxNeed  == 2      \* need is drawn from 0..MaxNeed

\* ------------------------------------------------------------- constants
None == -1         \* an undecided cell of self.state
NoCell == <<0, 0>> \* find_empty's "no undecided cell" result

VARIABLES
    H, W,          \* self.H, self.W
    grid,          \* self.grid: H rows of W positive integers
    M,             \* self.max_components
    state,         \* self.state: H rows of W labels in {0, 1, None}
    solutions,     \* self.solutions: the labelings collected so far
    need,          \* the argument of the solve call in progress
    stack,         \* the frames of backtrack(), innermost last
    phase,         \* "idle" (constructed), "running" (in solve), "returned",
                   \* or the name of the exception that ended the call
    prev,          \* the outcome of an earlier solver on the same grid
    seed,          \* the state argument of the constructor (NoSeed: none)
    persisted,     \* the label state kept in the checkpoint file (NoFile: none)
    app            \* the command line / GUI program around the solver

vars == <<H, W, grid, M, state, solutions, need, stack, phase, prev,
          seed, persisted, app>>

\* ----------------------------------------------------------------- utils
InGrid(h, w, r, c) == r >= 1 /\ r <= h /\ c >= 1 /\ c <= w

Dirs == << <<-1, 0>>, <<1, 0>>, <<0, -1>>, <<0, 1>> >>

RECURSIVE FilterIn(_, _, _, _, _)
FilterIn(h, w, r, c, i) ==
    IF i > Len(Dirs) THEN <<>>
    ELSE LET nr == r + Dirs[i][1]
             nc == c + Dirs[i][2]
             rest == FilterIn(h, w, r, c, i + 1)
         IN IF InGrid(h, w, nr, nc) THEN <<<<nr, nc>>>> \o rest ELSE rest

\* neighbors_orth that looks left and right only
neighbors_orth_row(h, w, r, c) ==
    (IF c > 1 THEN << <<r, c - 1>> >> ELSE <<>>) \o
    (IF c < w THEN << <<r, c + 1>> >> ELSE <<>>)

\* the up/down/left/right neighbours of (r, c) that lie in the grid
neighbors_orth(h, w, r, c) == FilterIn(h, w, r, c, 1)

\* the cell with row-major index k (1-based) of a grid of width w
CellAt(w, k) == <<((k - 1) \div w) + 1, ((k - 1) % w) + 1>>

\* the inner for loop of the BFS without its "grid[nr][nc] == 0" test
RECURSIVE VisitNbrs_any(_, _, _, _)
VisitNbrs_any(mask, nbrs, i, qv) ==
    IF i > Len(nbrs) THEN qv
    ELSE LET n == nbrs[i]
         IN IF n \notin qv[2]
            THEN VisitNbrs_any(mask, nbrs, i + 1,
                               <<Append(qv[1], n), qv[2] \cup {n}>>)
            ELSE VisitNbrs_any(mask, nbrs, i + 1, qv)

\* one pass of the inner for loop of the BFS over the neighbours of a cell:
\* qv = <<queue, visited>>
RECURSIVE VisitNbrs(_, _, _, _)
VisitNbrs(mask, nbrs, i, qv) ==
    IF i > Len(nbrs) THEN qv
    ELSE LET n == nbrs[i]
         IN IF mask[n[1]][n[2]] = 0 /\ n \notin qv[2]
            THEN VisitNbrs(mask, nbrs, i + 1,
                           <<Append(qv[1], n), qv[2] \cup {n}>>)
            ELSE VisitNbrs(mask, nbrs, i + 1, qv)

\* the while loop of the BFS: returns the visited set
RECURSIVE Bfs(_, _, _)
Bfs(mask, queue, visited) ==
    IF queue = <<>> THEN visited
    ELSE LET cur == Head(queue)
             qv == VisitNbrs(mask,
                             neighbors_orth(Len(mask), Len(mask[1]), cur[1], cur[2]),
                             1, <<Tail(queue), visited>>)
         IN Bfs(mask, qv[1], qv[2])

\* the row-major scan: a white unvisited cell starts a new component
RECURSIVE ScanCells(_, _, _, _)
ScanCells(mask, k, visited, components) ==
    IF k > Len(mask) * Len(mask[1]) THEN components
    ELSE LET cell == CellAt(Len(mask[1]), k)
         IN IF mask[cell[1]][cell[2]] = 0 /\ cell \notin visited
            THEN ScanCells(mask, k + 1,
                           Bfs(mask, <<cell>>, visited \cup {cell}),
                           components + 1)
            ELSE ScanCells(mask, k + 1, visited, components)

\* count_connected_components with "components = 1" for "components += 1"
count_connected_components_flag(mask) ==
    IF ScanCells(mask, 1, {}, 0) > 0 THEN 1 ELSE 0

count_connected_components(mask) == ScanCells(mask, 1, {}, 0)

white_connected(mask) == count_connected_components(mask) = 1

\* ---------------------------------------------------------------- solver
\* [[None] * W for _ in range(H)]
EmptyState(h, w) == [r \in 1..h |-> [c \in 1..w |-> None]]

\* the neighbour scan that never finds a black neighbour
AnyBlack_never(st, nbrs, i) == FALSE

RECURSIVE AnyBlack(_, _, _)
AnyBlack(st, nbrs, i) ==
    IF i > Len(nbrs) THEN FALSE
    ELSE IF st[nbrs[i][1]][nbrs[i][2]] = 1 THEN TRUE
    ELSE AnyBlack(st, nbrs, i + 1)

\* allowed that offers black before white
allowed_black_first(st, r, c) ==
    IF AnyBlack(st, neighbors_orth(H, W, r, c), 1)
    THEN <<0>>
    ELSE <<1, 0>>

\* allowed without the test on the neighbours
allowed_always_both(st, r, c) == <<0, 1>>

\* allowed with the can_be_black test inverted
allowed_inverted(st, r, c) ==
    IF AnyBlack(st, neighbors_orth(H, W, r, c), 1)
    THEN <<0, 1>>
    ELSE <<0>>

\* the candidate labels of cell (r, c): white always, black only when no
\* orthogonal neighbour is black
allowed(st, r, c) ==
    IF AnyBlack(st, neighbors_orth(H, W, r, c), 1)
    THEN <<0>>
    ELSE <<0, 1>>

RECURSIVE FirstNone(_, _)
FirstNone(st, k) ==
    IF k > H * W THEN NoCell
    ELSE LET cell == CellAt(W, k)
         IN IF st[cell[1]][cell[2]] = None THEN cell ELSE FirstNone(st, k + 1)

\* the first undecided cell in row-major order, NoCell when there is none
find_empty(st) == FirstNone(st, 1)

\* the row scan with "row_vals.add(v)" moved before the "v in row_vals" test
RowUnique_add_first(g, st, r, col, row_vals) == \A cc \in 1..W : st[r][cc] # 0

\* the row scan of valid_partial: FALSE when a white cell of row r repeats
\* a value already seen
RECURSIVE RowUnique(_, _, _, _, _)
RowUnique(g, st, r, col, row_vals) ==
    IF col > W THEN TRUE
    ELSE IF st[r][col] = 0
         THEN IF g[r][col] \in row_vals THEN FALSE
              ELSE RowUnique(g, st, r, col + 1, row_vals \cup {g[r][col]})
         ELSE RowUnique(g, st, r, col + 1, row_vals)

\* valid_partial without its column scan
ColUnique_skipped(g, st, c, row, col_vals) == TRUE

RECURSIVE ColUnique(_, _, _, _, _)
ColUnique(g, st, c, row, col_vals) ==
    IF row > H THEN TRUE
    ELSE IF st[row][c] = 0
         THEN IF g[row][c] \in col_vals THEN FALSE
              ELSE ColUnique(g, st, c, row + 1, col_vals \cup {g[row][c]})
         ELSE ColUnique(g, st, c, row + 1, col_vals)

\* valid_partial that checks a black cell only
valid_partial_black_only(g, st, r, c) ==
    IF st[r][c] = 1
    THEN ~AnyBlack(st, neighbors_orth(H, W, r, c), 1)
    ELSE TRUE

\* the check made right after state[r][c] was set
valid_partial(g, st, r, c) ==
    IF st[r][c] = 1
    THEN ~AnyBlack(st, neighbors_orth(H, W, r, c), 1)
    ELSE RowUnique(g, st, r, 1, {}) /\ ColUnique(g, st, c, 1, {})

\* binary_grid that counts an undecided cell as black
binary_grid_decided_only(st) ==
    [r \in 1..H |-> [c \in 1..W |-> IF st[r][c] = 0 THEN 0 ELSE 1]]

\* binary_grid of check_components: white and undecided cells are 0
binary_grid(st) ==
    [r \in 1..H |->
        [c \in 1..W |-> IF st[r][c] = 0 \/ st[r][c] = None THEN 0 ELSE 1]]

\* check_components with "==" for "<="
check_components_equal(st, m) == count_connected_components(binary_grid(st)) = m

\* check_components with "<" for "<="
check_components_strict(st, m) == count_connected_components(binary_grid(st)) < m

check_components(st, m) == count_connected_components(binary_grid(st)) <= m

\* white_map of valid_full: only white cells are 0
white_map(st) ==
    [r \in 1..H |-> [c \in 1..W |-> IF st[r][c] = 0 THEN 0 ELSE 1]]

valid_full(st, m) == ~(count_connected_components(white_map(st)) > m)

\* the quota test with ">" for ">="
quota_met_late(k, sols) == k > 0 /\ Len(sols) > k

\* the quota test at the head of backtrack()
quota_met(k, sols) == k > 0 /\ Len(sols) >= k

\* -------------------------------------------------------------- the search
\* A frame of backtrack(): pc is "enter" (at its first line), "loop" (at the
\* head of the for loop), "check" (cell assigned, before valid_partial) or
\* "revert" (before state[r][c] = None); opts is the list allowed() returned
\* and i the position of the loop in it; entry records self.state as it was
\* when the call started.
NewFrame ==
    [pc |-> "enter", r |-> 0, c |-> 0, opts |-> <<>>, i |-> 0, entry |-> state]

Top == stack[Len(stack)]
Pop == SubSeq(stack, 1, Len(stack) - 1)
SetTop(f) == [stack EXCEPT ![Len(stack)] = f]
At(p) == phase = "running" /\ stack # <<>> /\ Top.pc = p

Grids(h, w) == [1..h -> [1..w -> 1..MaxVal]]

NoPrev == [M |-> -1, need |-> -1, solutions |-> <<>>]

\* state=None in the constructor, no checkpoint file, no program around
NoSeed == <<>>
NoFile == <<>>
NoApp == [mode |-> "none"]

\* every self.state[r][c] with r < H and c < W exists
Fits(st) == Len(st) >= H /\ \A r \in 1..H : Len(st[r]) >= W

\* HitoriSolver(grid, max_components=M), no resumed state
Init ==
    /\ H \in 1..MaxCells
    /\ W \in 1..MaxCells
    /\ H * W <= MaxCells
    /\ grid \in Grids(H, W)
    /\ M \in 0..MaxM
    /\ state = EmptyState(H, W)
    /\ solutions = <<>>
    /\ need = 0
    /\ stack = <<>>
    /\ phase = "idle"
    /\ prev = NoPrev
    /\ seed = NoSeed
    /\ persisted = NoFile
    /\ app = NoApp

\* solve(need) is called: the outer backtrack() starts
Solve ==
    /\ phase = "idle"
    /\ \E k \in 0..MaxNeed : need' = k
    /\ stack' = <<NewFrame>>
    /\ phase' = "running"
    /\ UNCHANGED <<H, W, grid, M, state, solutions, prev, seed, persisted, app>>

\* backtrack(): the quota is met, return
QuotaReturn ==
    /\ At("enter")
    /\ quota_met(need, solutions)
    /\ stack' = Pop
    /\ UNCHANGED <<H, W, grid, M, state, solutions, need, phase, prev, seed, persisted, app>>

\* backtrack(): the component bound fails, return
Prune ==
    /\ At("enter")
    /\ ~quota_met(need, solutions)
    /\ Fits(state)
    /\ ~check_components(state, M)
    /\ stack' = Pop
    /\ UNCHANGED <<H, W, grid, M, state, solutions, need, phase, prev, seed, persisted, app>>

\* backtrack(): no undecided cell is left; the state is appended when
\* valid_full accepts it, and the call returns
Leaf ==
    /\ At("enter")
    /\ ~quota_met(need, solutions)
    /\ Fits(state)
    /\ check_components(state, M)
    /\ find_empty(state) = NoCell
    /\ solutions' = IF valid_full(state, M) THEN Append(solutions, state)
                    ELSE solutions
    /\ stack' = Pop
    /\ UNCHANGED <<H, W, grid, M, state, need, phase, prev, seed, persisted, app>>

\* backtrack(): an undecided cell is found, the for loop over allowed() starts
Expand ==
    /\ At("enter")
    /\ ~quota_met(need, solutions)
    /\ Fits(state)
    /\ check_components(state, M)
    /\ find_empty(state) # NoCell
    /\ LET pos == find_empty(state)
       IN stack' = SetTop([Top EXCEPT !.pc = "loop", !.r = pos[1], !.c = pos[2],
                               !.opts = allowed(state, pos[1], pos[2]),
                               !.i = 1])
    /\ UNCHANGED <<H, W, grid, M, state, solutions, need, phase, prev, seed, persisted, app>>

\* self.state[r][c] = val
Assign ==
    /\ At("loop")
    /\ Top.i <= Len(Top.opts)
    /\ state' = [state EXCEPT ![Top.r][Top.c] = Top.opts[Top.i]]
    /\ stack' = SetTop([Top EXCEPT !.pc = "check"])
    /\ UNCHANGED <<H, W, grid, M, solutions, need, phase, prev, seed, persisted, app>>

\* valid_partial holds: the recursive call
Descend ==
    /\ At("check")
    /\ valid_partial(grid, state, Top.r, Top.c)
    /\ stack' = Append(SetTop([Top EXCEPT !.pc = "revert"]), NewFrame)
    /\ UNCHANGED <<H, W, grid, M, state, solutions, need, phase, prev, seed, persisted, app>>

\* valid_partial fails: no recursive call
Skip ==
    /\ At("check")
    /\ ~valid_partial(grid, state, Top.r, Top.c)
    /\ stack' = SetTop([Top EXCEPT !.pc = "revert"])
    /\ UNCHANGED <<H, W, grid, M, state, solutions, need, phase, prev, seed, persisted, app>>

\* the revert step without "self.state[r][c] = None"
Revert_keep ==
    /\ At("revert")
    /\ stack' = SetTop([Top EXCEPT !.pc = "loop", !.i = Top.i + 1])
    /\ UNCHANGED <<H, W, grid, M, state, solutions, need, phase, prev, seed, persisted, app>>

\* the revert step of a loop that never moves on to the next candidate
Revert_stay ==
    /\ At("revert")
    /\ state' = [state EXCEPT ![Top.r][Top.c] = None]
    /\ stack' = SetTop([Top EXCEPT !.pc = "loop"])
    /\ UNCHANGED <<H, W, grid, M, solutions, need, phase, prev, seed, persisted, app>>

\* self.state[r][c] = None, on to the next candidate
Revert ==
    /\ At("revert")
    /\ state' = [state EXCEPT ![Top.r][Top.c] = None]
    /\ stack' = SetTop([Top EXCEPT !.pc = "loop", !.i = Top.i + 1])
    /\ UNCHANGED <<H, W, grid, M, solutions, need, phase, prev, seed, persisted, app>>

\* the for loop is exhausted: backtrack() returns
LoopEnd ==
    /\ At("loop")
    /\ Top.i > Len(Top.opts)
    /\ stack' = Pop
    /\ UNCHANGED <<H, W, grid, M, state, solutions, need, phase, prev, seed, persisted, app>>

\* the outer backtrack() has returned: return self.solutions
Return ==
    /\ phase = "running"
    /\ stack = <<>>
    /\ phase' = "returned"
    /\ UNCHANGED <<H, W, grid, M, state, solutions, need, stack, prev, seed, persisted, app>>

Next ==
    \/ Solve
    \/ QuotaReturn
    \/ Prune
    \/ Leaf
    \/ Expand
    \/ Assign
    \/ Descend
    \/ Skip
    \/ Revert
    \/ LoopEnd
    \/ Return

Spec == Init /\ [][Next]_vars

\* A second solver on the same grid with a larger bound, asked for all
\* solutions: HitoriSolver(grid, max_components=m).solve(0), after a first
\* solver's solve(0) has returned.  prev keeps the first solver's outcome.
Relax ==
    /\ phase = "returned"
    /\ prev = NoPrev
    /\ need = 0
    /\ \E m \in (M + 1)..MaxM : M' = m
    /\ prev' = [M |-> M, need |-> need, solutions |-> solutions]
    /\ state' = EmptyState(H, W)
    /\ solutions' = <<>>
    /\ need' = 0
    /\ stack' = <<[NewFrame EXCEPT !.entry = EmptyState(H, W)]>>
    /\ phase' = "running"
    /\ UNCHANGED <<H, W, grid, seed, persisted, app>>

NextMono ==
    \/ Next
    \/ Relax

SpecMono == Init /\ [][NextMono]_vars

\* A second solver on the same grid with the same bound, asked for k > 0
\* solutions: HitoriSolver(grid, max_components=M).solve(k), after a first
\* solver's solve(0) has returned.  prev keeps the first solver's outcome.
Requota ==
    /\ phase = "returned"
    /\ prev = NoPrev
    /\ need = 0
    /\ \E k \in 1..MaxNeed : need' = k
    /\ prev' = [M |-> M, need |-> need, solutions |-> solutions]
    /\ state' = EmptyState(H, W)
    /\ solutions' = <<>>
    /\ stack' = <<[NewFrame EXCEPT !.entry = EmptyState(H, W)]>>
    /\ phase' = "running"
    /\ UNCHANGED <<H, W, grid, M, seed, persisted, app>>

NextQuota ==
    \/ Next
    \/ Requota

SpecQuota == Init /\ [][NextQuota]_vars

\* solver.solve(need) called a second time on the same object with the same
\* need: solve does not reset self.solutions, and self.state is what the
\* first call left.  prev keeps what the first call returned.
SolveAgain ==
    /\ phase = "returned"
    /\ prev = NoPrev
    /\ prev' = [M |-> M, need |-> need, solutions |-> solutions]
    /\ stack' = <<NewFrame>>
    /\ phase' = "running"
    /\ UNCHANGED <<H, W, grid, M, state, solutions, need, seed, persisted, app>>

NextAgain ==
    \/ Next
    \/ SolveAgain

SpecAgain == Init /\ [][NextAgain]_vars

\* ------------------------------------------------------- a resumed state
\* The constructor's state argument: a rectangular label grid with cells in
\* {None, 0, 1}.  A resumed state of the grid's dimensions is given for grids
\* of at most ResumeCells cells; where the dimensions may differ, grid and
\* state have at most MismatchCells cells each.
ResumeCells == MaxCells - 2
MismatchCells == MaxCells - 1

Seeds(h, w) == [1..h -> [1..w -> {None, 0, 1}]]

\* HitoriSolver(grid, st, max_components=M) for a state argument st:
\* self.state = deepcopy(state) if state else [[None] * W for _ in range(H)]
Constructed(st, cells) ==
    /\ H \in 1..cells
    /\ W \in 1..cells
    /\ H * W <= cells
    /\ grid \in Grids(H, W)
    /\ M \in 0..MaxM
    /\ seed = st
    /\ state = IF st = NoSeed THEN EmptyState(H, W) ELSE st
    /\ solutions = <<>>
    /\ need = 0
    /\ stack = <<>>
    /\ phase = "idle"
    /\ prev = NoPrev
    /\ persisted = NoFile
    /\ app = NoApp

\* no state argument, or one of the grid's dimensions
InitResume ==
    \/ Constructed(NoSeed, MaxCells)
    \/ \E h \in 1..ResumeCells : \E w \in 1..ResumeCells :
           /\ h * w <= ResumeCells
           /\ \E st \in Seeds(h, w) :
                  Constructed(st, ResumeCells) /\ H = h /\ W = w

SpecResume == InitResume /\ [][Next]_vars

\* a state argument of any dimensions
InitMismatch ==
    \E sh \in 1..MismatchCells : \E sw \in 1..MismatchCells :
        /\ sh * sw <= MismatchCells
        /\ \E st \in Seeds(sh, sw) : Constructed(st, MismatchCells)

\* backtrack(): check_components reads self.state[r][c] for a row or column
\* the resumed state does not have; the IndexError ends solve()
IndexError ==
    /\ At("enter")
    /\ ~quota_met(need, solutions)
    /\ ~Fits(state)
    /\ stack' = <<>>
    /\ phase' = "IndexError"
    /\ UNCHANGED <<H, W, grid, M, state, solutions, need, prev, seed, persisted, app>>

NextMismatch ==
    \/ Next
    \/ IndexError

SpecMismatch == InitMismatch /\ [][NextMismatch]_vars

\* ------------------------------------------------------ saving the state
\* solver.solve(need=0, save_state=path), as test_save_and_resume calls it.
\* solve's only parameter besides self is need, so the call raises TypeError
\* when the arguments are bound: no statement of solve runs and no file is
\* written.
SolveSaving ==
    /\ phase = "idle"
    /\ phase' = "TypeError"
    /\ UNCHANGED <<H, W, grid, M, state, solutions, need, stack, prev, seed, persisted, app>>

NextSave ==
    \/ Next
    \/ SolveSaving

SpecSave == Init /\ [][NextSave]_vars

\* ------------------------------------------------------------ front ends
\* validate_grid, the command line main() of solver.py and the window of
\* gui_solver.py.  app is the running front end: its position and, for the
\* window, the fields of HitoriGUI.
MinSize == 2               \* validate_grid: fewest rows and fewest columns
RawDim == MaxCells \div 2  \* lines of a file, and values on a line
Frac == MaxVal + 1         \* a positive value that is no int (1.5); as text
                           \* of a file, a token int() raises ValueError on

IsInt(v) == v # Frac

RawVals == (0..MaxVal) \cup {Frac}
RawRows == UNION {[1..n -> RawVals] : n \in 0..RawDim}
\* lists of lists: empty, ragged, with empty rows, with bad values, too small
RawGrids == UNION {[1..k -> RawRows] : k \in 0..RawDim}

\* an optional argument or a text field: <<>> is None (for text: no number)
NoArg == <<>>
Opt(S) == {NoArg} \cup {<<x>> : x \in S}
BoundArgs == -1..MaxM
NeedArgs == -1..MaxNeed

\* validate_grid without its size test
validate_grid_no_size(g) ==
    IF g = <<>> THEN "empty"
    ELSE IF \E r \in 1..Len(g) : Len(g[r]) # Len(g[1]) THEN "row length"
    ELSE IF \E r \in 1..Len(g) : \E c \in 1..Len(g[1]) :
                ~IsInt(g[r][c]) \/ g[r][c] <= 0 THEN "value"
    ELSE "OK"

\* validate_grid(grid): "OK" stands for (True, "OK"), every other result for
\* (False, message)
validate_grid(g) ==
    IF g = <<>> THEN "empty"
    ELSE IF \E r \in 1..Len(g) : Len(g[r]) # Len(g[1]) THEN "row length"
    ELSE IF \E r \in 1..Len(g) : \E c \in 1..Len(g[1]) :
                ~IsInt(g[r][c]) \/ g[r][c] <= 0 THEN "value"
    ELSE IF Len(g) < MinSize \/ Len(g[1]) < MinSize THEN "size"
    ELSE "OK"

\* reading the file: list(map(int, line.split())) raises ValueError on a
\* token that is no integer; blank lines are skipped
ParseFails(lines) ==
    \E i \in 1..Len(lines) : \E j \in 1..Len(lines[i]) : ~IsInt(lines[i][j])

NonBlank(line) == line # <<>>

ReadGrid(lines) == SelectSeq(lines, NonBlank)

\* no front end has started and no solver exists
InitApp ==
    /\ H = 0
    /\ W = 0
    /\ grid = <<>>
    /\ M = 0
    /\ state = <<>>
    /\ solutions = <<>>
    /\ need = 0
    /\ stack = <<>>
    /\ phase = "idle"
    /\ prev = NoPrev
    /\ seed = NoSeed
    /\ persisted = NoFile
    /\ app = [mode |-> "start"]

NoSolver == UNCHANGED <<H, W, grid, M, state, solutions, need, stack, phase, prev, seed, persisted>>

\* solver = HitoriSolver(g, max_components=m); solver.solve(nd): the
\* constructor, and the first call of backtrack()
RunSolver(g, m, nd) ==
    /\ H' = Len(g)
    /\ W' = Len(g[1])
    /\ grid' = g
    /\ M' = m
    /\ state' = EmptyState(Len(g), Len(g[1]))
    /\ solutions' = <<>>
    /\ need' = nd
    /\ stack' = <<[NewFrame EXCEPT !.entry = EmptyState(Len(g), Len(g[1]))]>>
    /\ phase' = "running"
    /\ UNCHANGED <<prev, seed, persisted>>

\* a direct call validate_grid(g) on any list of lists
ValidateCall ==
    /\ app.mode = "start"
    /\ \E g \in RawGrids :
           app' = [mode |-> "validate", pc |-> "exit", grid |-> g,
                   result |-> validate_grid(g), msg |-> ""]
    /\ NoSolver

\* main() returns after printing msg; g is the grid read so far and res what
\* validate_grid said of it ("none": not called)
CliExit(msg, g, res) ==
    /\ app' = [mode |-> "cli", pc |-> "exit", grid |-> g, result |-> res, msg |-> msg]
    /\ NoSolver

\* main(): the --M test, the number of solutions asked for, reading the file
\* (a "# M=" line replaces args.M), validate_grid, then the solver
CliMain ==
    /\ app.mode = "start"
    /\ \E argM \in BoundArgs : \E all \in BOOLEAN : \E find \in Opt(NeedArgs) :
       \E lines \in RawGrids : \E file_M \in Opt(BoundArgs) :
           LET nd == IF all THEN 0 ELSE IF find # NoArg THEN find[1] ELSE 1
               g == ReadGrid(lines)
               m == IF file_M # NoArg THEN file_M[1] ELSE argM
               res == validate_grid(g)
           IN  IF argM < 0 THEN CliExit("--M", <<>>, "none")
               ELSE IF nd < 0 THEN CliExit("--find", <<>>, "none")
               ELSE IF ParseFails(lines) THEN CliExit("line", <<>>, "none")
               ELSE IF res # "OK" THEN CliExit("grid", g, res)
               ELSE /\ RunSolver(g, m, nd)
                    /\ app' = [mode |-> "cli", pc |-> "solve", grid |-> g,
                               result |-> res, msg |-> ""]

\* HitoriGUI.__init__: no grid, both spin boxes show 1, no worker thread.
\* thread is the worker's position, tneed and tM the arguments it was given,
\* found whether self.solutions is non-empty.
GuiStart ==
    /\ app.mode = "start"
    /\ app' = [mode |-> "gui", grid |-> <<>>, m_var |-> <<1>>, n_var |-> <<1>>,
               solving |-> FALSE, thread |-> "none", tneed |-> 0, tM |-> 0,
               found |-> FALSE]
    /\ NoSolver

Gui == app.mode = "gui"

\* The window's handlers run one at a time on the event loop.  While the
\* worker searches the handlers touch no field the search reads (the worker
\* holds its own solver and its own need and M), so they are taken between
\* searches; clear_all is also taken in the window between the start of the
\* worker and its first statement, where it changes the grid the worker reads.

\* the files load_file accepts: every line parses and validate_grid answers
\* OK for the grid read
Loadable ==
    {lines \in RawGrids : ~ParseFails(lines) /\ validate_grid(ReadGrid(lines)) = "OK"}

\* load_file: self.grid becomes the grid read and a "# M=" line sets the M
\* spin box; any other file leaves the window as it is
GuiLoadFile ==
    /\ Gui
    /\ app.thread = "none"
    /\ \/ \E lines \in Loadable : \E file_M \in Opt(BoundArgs) :
              app' = [app EXCEPT !.grid = ReadGrid(lines),
                                 !.m_var = IF file_M # NoArg THEN file_M ELSE @,
                                 !.found = FALSE]
       \/ (RawGrids # Loadable /\ UNCHANGED app)
    /\ NoSolver

\* the user types into the M spin box
GuiSetM ==
    /\ Gui
    /\ app.thread = "none"
    /\ \E v \in Opt(BoundArgs) : app' = [app EXCEPT !.m_var = v]
    /\ NoSolver

\* the user types into the N spin box
GuiSetN ==
    /\ Gui
    /\ app.thread = "none"
    /\ \E v \in Opt(NeedArgs) : app' = [app EXCEPT !.n_var = v]
    /\ NoSolver

\* solve_puzzle(nd): refuses without a grid, with a bad N when nd is None, and
\* with a bad M; else starts the worker thread with (need, M)
solve_puzzle(nd) ==
    LET nv == IF nd = NoArg THEN app.n_var ELSE nd
    IN  IF app.grid = <<>> THEN UNCHANGED app
        ELSE IF nv = NoArg \/ nv[1] < 0 THEN UNCHANGED app
        ELSE IF app.m_var = NoArg \/ app.m_var[1] < 0 THEN UNCHANGED app
        ELSE app' = [app EXCEPT !.found = FALSE, !.solving = TRUE, !.thread = "started",
                                !.tneed = nv[1], !.tM = app.m_var[1]]

\* the three solve buttons: solve_puzzle(1), find_n_solutions (N must be a
\* positive number), solve_puzzle(0).  One worker at a time: a second worker
\* would own a second solver.
GuiSolve ==
    /\ Gui
    /\ app.thread = "none"
    /\ \/ solve_puzzle(<<1>>)
       \/ IF app.n_var = NoArg \/ app.n_var[1] <= 0
          THEN UNCHANGED app
          ELSE solve_puzzle(app.n_var)
       \/ solve_puzzle(<<0>>)
    /\ NoSolver

\* clear_all, also between the start of the worker and its first statement
GuiClearAll ==
    /\ Gui
    /\ app.thread \in {"none", "started"}
    /\ app' = [app EXCEPT !.grid = <<>>, !.found = FALSE]
    /\ NoSolver

\* solve_thread: HitoriSolver(self.grid, max_components=M) and solve(need);
\* with self.grid == [] the constructor raises IndexError, which the thread
\* catches: self.solutions = []
GuiSolveThread ==
    /\ Gui
    /\ app.thread = "started"
    /\ IF app.grid = <<>>
       THEN /\ app' = [app EXCEPT !.thread = "done", !.found = FALSE, !.tneed = 0, !.tM = 0]
            /\ NoSolver
       ELSE /\ RunSolver(app.grid, app.tM, app.tneed)
            /\ app' = [app EXCEPT !.thread = "running"]

\* solve_thread: self.solutions = solver.solve(need); the thread ends and
\* its solver with it
GuiThreadEnd ==
    /\ Gui
    /\ app.thread = "running"
    /\ phase = "returned"
    /\ app' = [app EXCEPT !.thread = "done", !.found = (solutions # <<>>), !.tneed = 0, !.tM = 0]
    /\ H' = 0
    /\ W' = 0
    /\ grid' = <<>>
    /\ M' = 0
    /\ state' = <<>>
    /\ solutions' = <<>>
    /\ need' = 0
    /\ phase' = "idle"
    /\ UNCHANGED <<stack, prev, seed, persisted>>

\* check_solving_complete that resets nothing when no solution was found
GuiCheckSolvingComplete_found ==
    /\ Gui
    /\ app.solving
    /\ app.thread = "done"
    /\ app.found
    /\ app' = [app EXCEPT !.solving = FALSE, !.thread = "none"]
    /\ NoSolver

\* check_solving_complete, once the worker has ended (until then it
\* schedules itself again)
GuiCheckSolvingComplete ==
    /\ Gui
    /\ app.solving
    /\ app.thread = "done"
    /\ app' = [app EXCEPT !.solving = FALSE, !.thread = "none"]
    /\ NoSolver

NextApp ==
    \/ ValidateCall
    \/ CliMain
    \/ GuiStart
    \/ GuiLoadFile
    \/ GuiSetM
    \/ GuiSetN
    \/ GuiSolve
    \/ GuiClearAll
    \/ GuiSolveThread
    \/ GuiThreadEnd
    \/ GuiCheckSolvingComplete
    \/ QuotaReturn
    \/ Prune
    \/ Leaf
    \/ Expand
    \/ Assign
    \/ Descend
    \/ Skip
    \/ Revert
    \/ LoopEnd
    \/ Return

SpecApp == InitApp /\ [][NextApp]_vars

\* The window with its buttons left enabled while a worker runs, as the code
\* leaves them: nothing in solve_puzzle or load_file looks at self.solving.
\* A handler taken during the search touches no field the search reads, so
\* it commutes with the steps of the search and is taken here once the
\* search has returned and the worker has not yet stored its result.  In
\* thread = "both" the first worker still holds its result and the second
\* worker has been started and has not reached its first statement.

\* solve_puzzle(nd) while a worker runs: the same checks, the held solutions
\* are dropped, a second worker is started with (need, M)
solve_puzzle_during(nd) ==
    LET nv == IF nd = NoArg THEN app.n_var ELSE nd
    IN  IF app.grid = <<>> THEN UNCHANGED app
        ELSE IF nv = NoArg \/ nv[1] < 0 THEN UNCHANGED app
        ELSE IF app.m_var = NoArg \/ app.m_var[1] < 0 THEN UNCHANGED app
        ELSE app' = [app EXCEPT !.found = FALSE, !.solving = TRUE, !.thread = "both",
                                !.tneed = nv[1], !.tM = app.m_var[1]]

\* a solve button pressed while the worker of an earlier request runs
GuiSolveDuring ==
    /\ Gui
    /\ app.thread = "running"
    /\ phase = "returned"
    /\ \/ solve_puzzle_during(<<1>>)
       \/ IF app.n_var = NoArg \/ app.n_var[1] <= 0
          THEN UNCHANGED app
          ELSE solve_puzzle_during(app.n_var)
       \/ solve_puzzle_during(<<0>>)
    /\ UNCHANGED <<H, W, grid, M, state, solutions, need, stack, phase, prev, seed, persisted>>

\* load_file while a worker runs: the window's grid is replaced and the held
\* solutions are dropped; the worker keeps the grid its solver was built on.
\* A later load during the same worker overwrites what this one wrote, so
\* the first one stands for all of them.
GuiLoadDuring ==
    /\ Gui
    /\ app.thread = "running"
    /\ phase = "returned"
    /\ app.grid = grid
    /\ app.m_var = <<M>>
    /\ \E lines \in Loadable : \E file_M \in Opt(BoundArgs) :
           app' = [app EXCEPT !.grid = ReadGrid(lines),
                              !.m_var = IF file_M # NoArg THEN file_M ELSE @,
                              !.found = FALSE]
    /\ UNCHANGED <<H, W, grid, M, state, solutions, need, stack, phase, prev, seed, persisted>>

\* solve_thread of the first worker stores its result and ends while the
\* second worker has yet to begin
GuiFirstEnd ==
    /\ Gui
    /\ app.thread = "both"
    /\ phase = "returned"
    /\ app' = [app EXCEPT !.thread = "started", !.found = (solutions # <<>>)]
    /\ H' = 0
    /\ W' = 0
    /\ grid' = <<>>
    /\ M' = 0
    /\ state' = <<>>
    /\ solutions' = <<>>
    /\ need' = 0
    /\ phase' = "idle"
    /\ UNCHANGED <<stack, prev, seed, persisted>>

\* check_solving_complete while a worker is alive: self.solutions is
\* non-empty, so the solve is reported complete
GuiCheckEarly ==
    /\ Gui
    /\ app.solving
    /\ app.thread = "started"
    /\ app.found
    /\ app' = [app EXCEPT !.solving = FALSE]
    /\ NoSolver

\* a worker ends after the solve was reported complete: no polling loop is
\* left to see it
GuiThreadGone ==
    /\ Gui
    /\ ~app.solving
    /\ app.thread = "done"
    /\ app' = [app EXCEPT !.thread = "none"]
    /\ NoSolver

NextRace ==
    \/ ValidateCall
    \/ CliMain
    \/ GuiStart
    \/ GuiLoadFile
    \/ GuiSetM
    \/ GuiSetN
    \/ GuiSolve
    \/ GuiClearAll
    \/ GuiSolveThread
    \/ GuiThreadEnd
    \/ GuiCheckSolvingComplete
    \/ GuiSolveDuring
    \/ GuiLoadDuring
    \/ GuiFirstEnd
    \/ GuiCheckEarly
    \/ GuiThreadGone
    \/ QuotaReturn
    \/ Prune
    \/ Leaf
    \/ Expand
    \/ Assign
    \/ Descend
    \/ Skip
    \/ Revert
    \/ LoopEnd
    \/ Return

SpecRace == InitApp /\ [][NextRace]_vars

\* ------------------------------------------------- counting components
\* count_connected_components(mask) called directly on any H x W mask of
\* cells 0 and 1.  The function only reads its argument: after the call the
\* caller's list is what it was.
Masks ==
    UNION {[1..h -> [1..w -> {0, 1}]] : <<h, w>> \in
               {d \in (1..MaxCells) \X (1..MaxCells) : d[1] * d[2] <= MaxCells}}

InitCount ==
    /\ H = 0
    /\ W = 0
    /\ grid = <<>>
    /\ M = 0
    /\ state = <<>>
    /\ solutions = <<>>
    /\ need = 0
    /\ stack = <<>>
    /\ phase = "idle"
    /\ prev = NoPrev
    /\ seed = NoSeed
    /\ persisted = NoFile
    /\ \E mask \in Masks : app = [mode |-> "count", pc |-> "call", arg |-> mask, mask |-> mask]

CountCall ==
    /\ app.mode = "count"
    /\ app.pc = "call"
    /\ app' = [mode |-> "count", pc |-> "done", arg |-> app.arg, mask |-> app.mask,
               result |-> count_connected_components(app.mask)]
    /\ NoSolver

NextCount == CountCall

SpecCount == InitCount /\ [][NextCount]_vars

\* ------------------------------------------------------ the older engine
\* solve_hitori of src/hitori_solver.py: every cell in row-major order is
\* tried white, then black; the rules are checked on complete labelings only.
\* A labeling is its set of black cells.
neighbors(r, c, n, m) == FilterIn(n, m, r, c, 1)

\* rule 1 for row r: no value is seen twice among its white cells
RowSeen(g, black, r) ==
    \A c1, c2 \in 1..Len(g[1]) :
        (c1 < c2 /\ <<r, c1>> \notin black /\ <<r, c2>> \notin black)
            => g[r][c1] # g[r][c2]

\* rule 1 for column c
ColSeen(g, black, c) ==
    \A r1, r2 \in 1..Len(g) :
        (r1 < r2 /\ <<r1, c>> \notin black /\ <<r2, c>> \notin black)
            => g[r1][c] # g[r2][c]

\* rule 2: no black cell has a black neighbour
NoBlackPair(g, black) ==
    \A b \in black :
        LET nbrs == neighbors(b[1], b[2], Len(g), Len(g[1]))
        IN \A i \in 1..Len(nbrs) : nbrs[i] \notin black

\* dfs(r, c) of rule 3 and its loop over the neighbours; the result is the
\* visited set
RECURSIVE dfs(_, _, _, _, _)
RECURSIVE dfs_each(_, _, _, _, _, _)
dfs(n, m, black, cell, visited) ==
    IF cell \in visited \/ cell \in black THEN visited
    ELSE dfs_each(n, m, black, neighbors(cell[1], cell[2], n, m), 1,
                  visited \cup {cell})

dfs_each(n, m, black, nbrs, i, visited) ==
    IF i > Len(nbrs) THEN visited
    ELSE dfs_each(n, m, black, nbrs, i + 1, dfs(n, m, black, nbrs[i], visited))

\* the first white cell in row-major order, NoCell when every cell is black
RECURSIVE FirstWhite(_, _, _, _)
FirstWhite(n, m, black, k) ==
    IF k > n * m THEN NoCell
    ELSE IF CellAt(m, k) \notin black THEN CellAt(m, k)
    ELSE FirstWhite(n, m, black, k + 1)

\* rule 3: every white cell is reached from the first white cell
AllWhiteVisited(g, black) ==
    LET n == Len(g)
        m == Len(g[1])
        start == FirstWhite(n, m, black, 1)
    IN  start = NoCell \/
        \A a \in (1..n) \X (1..m) :
            a \in black \/ a \in dfs(n, m, black, start, {})

\* is_valid_hitori without rule 3
is_valid_hitori_no_dfs(g, black) ==
    /\ \A r \in 1..Len(g) : RowSeen(g, black, r)
    /\ \A c \in 1..Len(g[1]) : ColSeen(g, black, c)
    /\ NoBlackPair(g, black)

is_valid_hitori(g, black) ==
    /\ \A r \in 1..Len(g) : RowSeen(g, black, r)
    /\ \A c \in 1..Len(g[1]) : ColSeen(g, black, c)
    /\ NoBlackPair(g, black)
    /\ AllWhiteVisited(g, black)

\* is_valid_partial of solve_hitori: the cell just made black has no black
\* neighbour
is_valid_partial(g, black, cell) ==
    LET nbrs == neighbors(cell[1], cell[2], Len(g), Len(g[1]))
    IN \A i \in 1..Len(nbrs) : nbrs[i] \notin black

\* backtrack(r, c, black_cells) of solve_hitori at the k-th cell: the
\* labelings it appends to solutions, in order
RECURSIVE backtrack_cells(_, _, _)
backtrack_cells(g, k, black) ==
    IF k > Len(g) * Len(g[1])
    THEN IF is_valid_hitori(g, black) THEN <<black>> ELSE <<>>
    ELSE LET cell == CellAt(Len(g[1]), k)
         IN backtrack_cells(g, k + 1, black) \o
            (IF is_valid_partial(g, black \cup {cell}, cell)
             THEN backtrack_cells(g, k + 1, black \cup {cell})
             ELSE <<>>)

solve_hitori(g) == backtrack_cells(g, 1, {})

\* solve_hitori(grid) called on the grid a HitoriSolver has solved
SolveHitori ==
    /\ phase = "returned"
    /\ app = NoApp
    /\ app' = [mode |-> "hitori", solutions |-> solve_hitori(grid)]
    /\ UNCHANGED <<H, W, grid, M, state, solutions, need, stack, phase, prev, seed, persisted>>

NextEngines ==
    \/ Next
    \/ SolveHitori

SpecEngines == Init /\ [][NextEngines]_vars

\* ------------------------------------------------- the rules of the puzzle
\* (stated directly on a labeling, independently of the solver's functions)
CellsOf(s) == (1..Len(s)) \X (1..Len(s[1]))

Abs(x) == IF x < 0 THEN -x ELSE x

Adjacent(a, b) == Abs(a[1] - b[1]) + Abs(a[2] - b[2]) = 1

NoAdjacentRemoved(s) ==
    \A a \in CellsOf(s) : \A b \in CellsOf(s) :
        Adjacent(a, b) => ~(s[a[1]][a[2]] = 1 /\ s[b[1]][b[2]] = 1)

KeptUnique(g, s) ==
    \A a \in CellsOf(s) : \A b \in CellsOf(s) :
        (a # b /\ (a[1] = b[1] \/ a[2] = b[2])
              /\ s[a[1]][a[2]] = 0 /\ s[b[1]][b[2]] = 0)
        => g[a[1]][a[2]] # g[b[1]][b[2]]

KeptCells(s) == {a \in CellsOf(s) : s[a[1]][a[2]] = 0}

RECURSIVE Closure(_, _)
Closure(kept, S) ==
    LET S2 == S \cup {b \in kept : \E a \in S : Adjacent(a, b)}
    IN IF S2 = S THEN S ELSE Closure(kept, S2)

\* the number of orthogonally connected components of the Kept cells
KeptComponents(s) ==
    Cardinality({Closure(KeptCells(s), {a}) : a \in KeptCells(s)})

\* the three rules under bound m; m = 0 means no bound on the components
Valid(g, s, m) ==
    /\ NoAdjacentRemoved(s)
    /\ KeptUnique(g, s)
    /\ (m > 0 => KeptComponents(s) <= m)

Labelings(h, w) == [1..h -> [1..w -> {0, 1}]]

\* brute force: every fully decided labeling that satisfies the rules
AllValid(g, m) == {s \in Labelings(Len(g), Len(g[1])) : Valid(g, s, m)}

Range(seq) == {seq[i] : i \in 1..Len(seq)}

Returned == phase = "returned"

\* ------------------------------------------------------------------ claims

\* C1: every labeling returned by solve on a fresh solver with M >= 1 has no
\* two orthogonally adjacent Removed cells.
C1_NoAdjacentRemoved ==
    (Returned /\ M >= 1) =>
        \A i \in 1..Len(solutions) : NoAdjacentRemoved(solutions[i])

\* a returned labeling of a grid of several cells that has a Removed cell
C1_Witness ==
    /\ Returned /\ M >= 1 /\ H * W >= 2
    /\ \E i \in 1..Len(solutions) :
           \E a \in CellsOf(solutions[i]) : solutions[i][a[1]][a[2]] = 1

\* C2: in every labeling returned by solve on a fresh solver with M >= 1 the
\* grid values at Kept cells are pairwise distinct in each row and column.
C2_KeptUnique ==
    (Returned /\ M >= 1) =>
        \A i \in 1..Len(solutions) : KeptUnique(grid, solutions[i])

\* a labeling is returned for a grid that repeats a value in a row and
\* repeats a value in a column
C2_Witness ==
    /\ Returned /\ M >= 1 /\ solutions # <<>>
    /\ \E a \in CellsOf(grid) : \E b \in CellsOf(grid) :
           a # b /\ a[1] = b[1] /\ grid[a[1]][a[2]] = grid[b[1]][b[2]]
    /\ \E a \in CellsOf(grid) : \E b \in CellsOf(grid) :
           a # b /\ a[2] = b[2] /\ grid[a[1]][a[2]] = grid[b[1]][b[2]]

\* C3: for M > 0 every labeling returned by solve has at most M connected
\* components of Kept cells.
C3_ComponentsAtMostM ==
    (Returned /\ M > 0) =>
        \A i \in 1..Len(solutions) : KeptComponents(solutions[i]) <= M

\* solve(0) with M = 1 returned labelings while some labeling with two
\* components satisfies the other two rules
C3_Witness ==
    /\ Returned /\ M = 1 /\ need = 0 /\ solutions # <<>>
    /\ \E s \in Labelings(H, W) :
           NoAdjacentRemoved(s) /\ KeptUnique(grid, s) /\ KeptComponents(s) = 2

\* C4: for M >= 1, solve(need=0) on a fresh solver returns exactly the
\* labelings that brute-force enumeration finds valid, each of them once.
C4_AllSolutions ==
    (Returned /\ need = 0 /\ M >= 1) =>
        /\ Range(solutions) = AllValid(grid, M)
        /\ Cardinality(Range(solutions)) = Len(solutions)

\* solve(0) returned three or more labelings and the bound excluded others
C4_Witness ==
    /\ Returned /\ need = 0 /\ M >= 1 /\ Len(solutions) >= 3
    /\ AllValid(grid, M) # AllValid(grid, 0)

\* C5: solve(need=k), k > 0, on a fresh solver returns at most k labelings,
\* and exactly k whenever the grid admits at least k valid labelings under M
\* (M ranges over every bound, 0 included).
C5_Quota ==
    (Returned /\ need > 0) =>
        /\ Len(solutions) <= need
        /\ (Cardinality(AllValid(grid, M)) >= need => Len(solutions) = need)

\* C6: with max_components = 0 the component bound never prunes a branch and
\* solve(need=0) returns every labeling that satisfies the adjacency and the
\* uniqueness rule.
C6_BoundDisabled ==
    (M = 0) =>
        /\ (At("enter") => check_components(state, M))
        /\ ((Returned /\ need = 0) =>
                Range(solutions) =
                    {s \in Labelings(H, W) :
                        NoAdjacentRemoved(s) /\ KeptUnique(grid, s)})

\* the two solve(0) calls of Relax have both returned, the first with a result
BothReturned ==
    /\ Returned /\ prev # NoPrev
    /\ prev.need = 0 /\ need = 0 /\ prev.M < M
    /\ prev.solutions # <<>>

\* C7: for M < M', when solve(need=0) under M returns labelings, solve(need=0)
\* under M' returns labelings too, among them every labeling returned under M.
C7_Monotone ==
    BothReturned =>
        /\ solutions # <<>>
        /\ Range(prev.solutions) \subseteq Range(solutions)

\* the larger bound returned strictly more labelings than the smaller one
C7_Witness ==
    /\ BothReturned
    /\ Range(prev.solutions) # Range(solutions)
    /\ Range(prev.solutions) \subseteq Range(solutions)

\* C8: when no labeling satisfies the three rules under M, solve returns the
\* empty sequence; so it does for grid [[1,1],[2,2]] with M = 1 and need = 1.
C8_NoSolutionEmpty ==
    /\ (Returned /\ AllValid(grid, M) = {}) => solutions = <<>>
    /\ (Returned /\ grid = << <<1, 1>>, <<2, 2>> >> /\ M = 1 /\ need = 1)
           => solutions = <<>>

\* solve(1) has returned for grid [[1,1],[2,2]] with M = 1, which has no
\* valid labeling
C8_Witness ==
    /\ Returned /\ grid = << <<1, 1>>, <<2, 2>> >> /\ M = 1 /\ need = 1
    /\ AllValid(grid, M) = {}
    /\ solutions = <<>>

\* C9: for a 1x1 grid with M = 1, solve(need=0) returns exactly the two
\* labelings Kept and Removed, and solve(need=1) a non-empty list whose only
\* cell is 0 or 1.
C9_OneByOne ==
    (Returned /\ H = 1 /\ W = 1 /\ M = 1) =>
        /\ (need = 0 =>
                /\ Len(solutions) = 2
                /\ Range(solutions) = { <<<<0>>>>, <<<<1>>>> })
        /\ (need = 1 =>
                /\ solutions # <<>>
                /\ solutions[1][1][1] \in {0, 1})

\* solve(0) has returned for a 1x1 grid with M = 1
C9_Witness ==
    /\ Returned /\ H = 1 /\ W = 1 /\ M = 1 /\ need = 0
    /\ Len(solutions) = 2

NoRepeats(g) ==
    \A a \in CellsOf(g) : \A b \in CellsOf(g) :
        (a # b /\ (a[1] = b[1] \/ a[2] = b[2])) => g[a[1]][a[2]] # g[b[1]][b[2]]

AllKept(h, w) == [r \in 1..h |-> [c \in 1..w |-> 0]]

\* C11: for a grid without a repeated value in any row or column and M >= 1,
\* solve(need=0) returns the all-Kept labeling among its labelings, and solve
\* with need > 0 returns a non-empty sequence.
C11_AllKeptReturned ==
    (Returned /\ M >= 1 /\ NoRepeats(grid)) =>
        /\ (need = 0 => AllKept(H, W) \in Range(solutions))
        /\ (need > 0 => solutions # <<>>)

\* solve(0) has returned for a 2x2 grid without repeats (a Latin square)
C11_Witness ==
    /\ Returned /\ M >= 1 /\ need = 0 /\ H = 2 /\ W = 2 /\ NoRepeats(grid)
    /\ AllKept(H, W) \in Range(solutions)

\* the labels of s in row-major order
Flat(s) == [k \in 1..(Len(s) * Len(s[1])) |->
               s[CellAt(Len(s[1]), k)[1]][CellAt(Len(s[1]), k)[2]]]

LexLess(a, b) ==
    \E k \in 1..Len(a) : a[k] < b[k] /\ \A j \in 1..(k - 1) : a[j] = b[j]

\* C12: the sequence returned by solve on a fresh solver is strictly increasing
\* in the row-major lexicographic order of the labelings, with Kept (0) before
\* Removed (1).
C12_DiscoveryOrder ==
    Returned =>
        \A i \in 1..(Len(solutions) - 1) :
            LexLess(Flat(solutions[i]), Flat(solutions[i + 1]))

\* a returned sequence of three or more labelings
C12_Witness == Returned /\ Len(solutions) >= 3

\* the labelings that agree with st on its decided cells
Completions(st) ==
    {s \in Labelings(H, W) :
        \A a \in CellsOf(s) : st[a[1]][a[2]] # None => s[a[1]][a[2]] = st[a[1]][a[2]]}

\* backtrack() is about to return because check_components rejects the state
Pruning == At("enter") /\ ~quota_met(need, solutions) /\ ~check_components(state, M)

\* C17: for M > 0, whenever check_components rejects a state of a search that
\* started all-Undecided, no completion of its Undecided cells satisfies the
\* three rules under M.
C17_PruningAdmissible ==
    (Pruning /\ M > 0) => \A s \in Completions(state) : ~Valid(grid, s, M)

\* a state with Undecided cells left is rejected under M > 0
C17_Witness == Pruning /\ M > 0 /\ find_empty(state) # NoCell

\* C19: no working state of a search that started all-Undecided, the state
\* between an assignment and its validation included, has two orthogonally
\* adjacent Removed cells.
C19_NoAdjacentRemovedEver == NoAdjacentRemoved(state)

\* a cell has just been set Removed and is not yet validated, while another
\* cell of the state is Removed
C19_Witness ==
    /\ At("check") /\ state[Top.r][Top.c] = 1
    /\ \E a \in CellsOf(state) : a # <<Top.r, Top.c>> /\ state[a[1]][a[2]] = 1

\* C20: at every entry to backtrack() in a search that started all-Undecided
\* the Kept cells of the working state repeat no value in a row or column; a
\* Kept assignment that creates a repeat fails valid_partial, so that nothing
\* descends below it.
C20_KeptUniqueAtEntry ==
    /\ At("enter") => KeptUnique(grid, state)
    /\ (At("check") /\ ~KeptUnique(grid, state))
           => ~valid_partial(grid, state, Top.r, Top.c)

\* a cell has just been set Kept and repeats a value of its row or column
C20_Witness ==
    At("check") /\ state[Top.r][Top.c] = 0 /\ ~KeptUnique(grid, state)

\* the resumed state has another number of rows or another row length than
\* the grid
Mismatch == seed # NoSeed /\ (Len(seed) # H \/ Len(seed[1]) # W)

\* C13: a resumed state whose dimensions differ from the grid's is rejected
\* before any search step: the search never gets past the first line of the
\* outer backtrack(), solve does not return and no labeling is collected.
C13_MismatchRejected ==
    Mismatch =>
        /\ phase # "returned"
        /\ solutions = <<>>
        /\ (phase = "running" /\ stack # <<>>) => (Len(stack) = 1 /\ Top.pc = "enter")

\* the state the solver was constructed with
InitialState == IF seed = NoSeed THEN EmptyState(H, W) ELSE seed

\* C18: a call of backtrack() returns (from its first lines or from the end
\* of its loop) with the working state as it was at its entry, and after
\* solve has returned the state is the all-Undecided or seeded state the
\* solver was constructed with.
C18_StateRestored ==
    /\ (At("enter") \/ At("loop")) => state = Top.entry
    /\ Returned => state = InitialState

\* solve has returned labelings for a resumed state with Undecided cells and
\* a decided cell
C18_Witness ==
    /\ Returned /\ seed # NoSeed /\ ~Mismatch /\ state = seed
    /\ solutions # <<>>
    /\ find_empty(seed) # NoCell
    /\ \E a \in CellsOf(seed) : seed[a[1]][a[2]] # None

\* C14: the call solve(need=0, save_state=path) is accepted and persists the
\* label state under the key "state": the call never ends in an error, and
\* a file that has been written holds the solver's state, from which a second
\* solver can be constructed.
C14_SaveResume ==
    /\ phase # "TypeError"
    /\ persisted # NoFile => persisted = [state |-> state]

\* a non-empty rectangular grid of positive integers with at least two rows
\* and two columns
WellFormed(g) ==
    /\ Len(g) >= 2
    /\ \A r \in 1..Len(g) :
           /\ Len(g[r]) = Len(g[1])
           /\ Len(g[r]) >= 2
           /\ \A c \in 1..Len(g[r]) : g[r][c] \in Nat \ {0, Frac}

\* a front end has handed a grid to HitoriSolver and called solve
SolveReached == app.mode \in {"cli", "gui"} /\ phase # "idle"

\* C15: validate_grid answers OK exactly for the non-empty rectangular grids
\* of positive integers with H >= 2 and W >= 2, and the command line and the
\* window reach HitoriSolver.solve only with a grid validate_grid answers OK
\* for.
C15_ValidatedOnly ==
    /\ (app.mode \in {"validate", "cli"} /\ app.result # "none")
           => (app.result = "OK" <=> WellFormed(app.grid))
    /\ SolveReached => (validate_grid(grid) = "OK" /\ WellFormed(grid))

\* the window's worker is inside the search on the grid that was loaded
C15_Witness ==
    /\ app.mode = "gui"
    /\ phase = "running"
    /\ Len(stack) > 1
    /\ grid = app.grid

\* C16: on every path of the command line and of the window solve is called
\* only with max_components >= 0 and need >= 0.
C16_NonNegativeArgs == SolveReached => (M >= 0 /\ need >= 0)

\* C21: a solver constructed with a resumed state of the grid's dimensions,
\* whatever its content, returns only labelings that satisfy the three rules:
\* no adjacent Removed cells, Kept values unique per row and column, and at
\* most M Kept components.
C21_ResumedSolutionsValid ==
    (Returned /\ seed # NoSeed /\ ~Mismatch) =>
        \A i \in 1..Len(solutions) :
            /\ NoAdjacentRemoved(solutions[i])
            /\ KeptUnique(grid, solutions[i])
            /\ KeptComponents(solutions[i]) <= M

\* C22: count_connected_components returns the number of classes of cells 0
\* under orthogonal reachability through cells 0 (0 when no cell is 0) and
\* leaves the mask as it was.
C22_CountsComponents ==
    (app.mode = "count" /\ app.pc = "done") =>
        /\ app.result = KeptComponents(app.arg)
        /\ app.mask = app.arg

\* a mask with two separate groups of cells 0 has been counted
C22_Witness ==
    /\ app.mode = "count"
    /\ app.pc = "done"
    /\ app.result = 2
    /\ Len(app.arg) > 1

\* The place of a frame in the body of backtrack(): 0 at its entry, and for
\* the i-th candidate of the for loop 3(i-1)+1 at the loop head, +2 after the
\* assignment, +3 at the revert.  allowed() gives at most two candidates, so
\* a frame has the places 0..LastPlace.
LastPlace == 3 * 2 + 1

Place(f) ==
    IF f.pc = "enter" THEN 0
    ELSE 3 * (f.i - 1) + (IF f.pc = "loop" THEN 1 ELSE IF f.pc = "check" THEN 2 ELSE 3)

\* The places of the frames, outermost first, read as the digits of a number
\* of H*W+1 digits; a level without a frame counts as LastPlace + 1.
RECURSIVE Digits(_)
Digits(j) ==
    IF j = 0 THEN 0
    ELSE Digits(j - 1) * (LastPlace + 2) +
         (IF j <= Len(stack) THEN Place(stack[j]) ELSE LastPlace + 1)

Progress == Digits(H * W + 1)

\* some statement of solve can be executed
CanStep ==
    \/ stack = <<>>
    \/ Top.pc = "enter" /\ (quota_met(need, solutions) \/ Fits(state))
    \/ Top.pc = "loop"
    \/ Top.pc \in {"check", "revert"} /\ InGrid(H, W, Top.r, Top.c)

\* C23: solve terminates.  The recursion is never deeper than the number of
\* cells plus one; while the search runs a statement can always be executed,
\* every frame is at one of its places, and every step raises Progress, which
\* is below (LastPlace + 2)^(H*W+1): so the search takes finitely many steps
\* and then returns.
C23_Terminates ==
    /\ [](Len(stack) <= H * W + 1)
    /\ [](phase = "running" =>
              /\ CanStep
              /\ \A j \in 1..Len(stack) : Place(stack[j]) \in 0..LastPlace)
    /\ [][(phase = "running" /\ phase' = "running") => Progress' > Progress]_vars

\* the recursion is at its deepest on a grid of at least three cells
C23_Witness == phase = "running" /\ H * W >= 3 /\ Len(stack) = H * W + 1

Min(a, b) == IF a < b THEN a ELSE b

\* a second call or a second solver has returned; prev is the first outcome
SecondReturned == Returned /\ prev # NoPrev

\* C24: for k > 0, solve(k) on a fresh solver returns exactly the first
\* min(k, n) of the n labelings solve(0) returns on a fresh solver for the
\* same grid and M.
C24_QuotaTruncates ==
    (SecondReturned /\ prev.need = 0 /\ need > 0 /\ prev.M = M) =>
        solutions = SubSeq(prev.solutions, 1, Min(need, Len(prev.solutions)))

\* the quota has cut a longer list of all solutions
C24_Witness ==
    /\ SecondReturned
    /\ prev.need = 0
    /\ need > 0
    /\ Len(prev.solutions) > need
    /\ Len(solutions) = need

RemovedSet(s) == {a \in CellsOf(s) : s[a[1]][a[2]] = 1}

\* both engines have run on the grid, the solver with M = 1 for all solutions
BothEngines == app.mode = "hitori" /\ Returned /\ M = 1 /\ need = 0

\* C26: the black-cell sets solve_hitori(grid) returns are, in the same
\* order, the Removed-cell sets of the labelings that
\* HitoriSolver(grid, max_components=1).solve(0) returns.
C26_EnginesAgree ==
    BothEngines =>
        /\ Len(app.solutions) = Len(solutions)
        /\ \A i \in 1..Len(solutions) : app.solutions[i] = RemovedSet(solutions[i])

\* both engines have returned several labelings of a grid of three cells or
\* more, one of them with a Removed cell
C26_Witness ==
    /\ BothEngines
    /\ H * W >= 3
    /\ Len(solutions) >= 2
    /\ \E i \in 1..Len(app.solutions) : app.solutions[i] # {}

\* How far a solve request of the window has come: the worker is started, it
\* searches, its search has returned, it has ended, its end has been seen.
Stage ==
    IF app.thread = "started" THEN 1
    ELSE IF app.thread = "running" /\ phase = "running" THEN 2
    ELSE IF app.thread = "running" THEN 3
    ELSE IF app.thread = "done" THEN 4
    ELSE 5

\* a step of the worker or of the polling loop has brought the request on
Advance == Stage' > Stage \/ (Stage = 2 /\ Stage' = 2 /\ Progress' > Progress)

\* the worker or the polling loop can take its next step
WorkerCanStep ==
    /\ Stage = 1 => ENABLED GuiSolveThread
    /\ Stage = 2 => CanStep
    /\ Stage = 3 => ENABLED GuiThreadEnd
    /\ Stage = 4 => ENABLED GuiCheckSolvingComplete
    /\ Stage < 5

C28_CompleteMeansFinished ==
    (app.mode = "gui" /\ ~app.solving) => app.thread \in {"none", "done"}

\* C25: a second call of solve(need) on the same solver returns the sequence
\* the first call returned, and no labeling is in it twice.
C25_Repeatable ==
    SecondReturned =>
        /\ solutions = prev.solutions
        /\ \A i, j \in 1..Len(solutions) : solutions[i] = solutions[j] => i = j

====
